---- MODULE Spec2Model ----
(***************************************************************************)
(* Model of articles/maintaining-a-websocket-connection/                   *)
(* maintaining_a_websocket_connection.py: the async generator              *)
(* websocket_generator (the Supervisor) and its only consumer              *)
(* print_btc_ticker (handshake + pump), run by asyncio.run.                *)
(*                                                                         *)
(* The program is one asyncio task.  A state of the model is the task at   *)
(* one of its suspension points (an await on the websockets library); an   *)
(* action is the completion of that await, successful or not, followed by  *)
(* all the synchronous code up to the next suspension point.  Exceptions   *)
(* follow Python >= 3.8, where asyncio.CancelledError and GeneratorExit    *)
(* derive from BaseException and not from Exception.  The collaborator's   *)
(* close (exit of `async with`) is one step after which the connection is  *)
(* no longer open, whether or not it raised.                               *)
(***************************************************************************)
EXTENDS Naturals, Sequences, FiniteSets

VARIABLES
    pc,          \* suspension point of the task
    gen,         \* number of handles yielded so far = generation of the latest
    live,        \* generations whose `async with` block has not been exited
    wsOpen,      \* websocket.open of the latest handle
    attempts,    \* websockets.connect(URL) calls started so far
    subs,        \* websocket.send calls issued on the latest handle
    sendDone,    \* the send on the latest handle has returned
    recvs,       \* websocket.recv calls issued on the latest handle
    received,    \* frames returned by recv on the latest handle
    delivered,   \* frames print() has processed on the latest handle
    pumpLogs,    \* "Error in print_btc_ticker" lines for the latest handle
    genLogs,     \* "Websocket connection failed" lines
    lastEnd,     \* how the latest attempt or handle ended
    waited,      \* time spent suspended in asyncio.sleep since that end
    cancelledAt, \* suspension point at which the task was cancelled
    forwarded,   \* frames print() has been called with on the latest handle
    connectFails,\* websockets.connect(URL) calls that raised, so far
    closeFails,  \* exits of `async with` that raised, so far
    failsSince   \* connect calls that raised since the last one that succeeded

vars == <<pc, gen, live, wsOpen, attempts, subs, sendDone, recvs, received,
          delivered, pumpLogs, genLogs, lastEnd, waited, cancelledAt,
          forwarded, connectFails, closeFails, failsSince>>

\* Bounds of the model.
MaxAttempts == 4
MaxMsgs == 2

\* def websocket_generator(retry_seconds=5)
retry_seconds == 5

Frames == {"f1", "f2"}

PcValues == {"connecting", "sending", "receiving", "closing", "task_ended", "done"}

EndValues == {"start", "none", "connect_failed", "send_failed", "recv_failed",
              "consumer_failed", "peer_closed", "close_failed", "cancelled"}

CancelPoints == {"none", "connecting", "sending", "receiving"}

TypeOK ==
    /\ pc \in PcValues
    /\ gen \in 0..MaxAttempts
    /\ live \subseteq 1..MaxAttempts
    /\ wsOpen \in BOOLEAN
    /\ attempts \in 1..MaxAttempts
    /\ subs \in 0..1
    /\ sendDone \in BOOLEAN
    /\ recvs \in 0..(MaxMsgs + 1)
    /\ received \in Seq(Frames) /\ Len(received) <= MaxMsgs
    /\ delivered \in Seq(Frames) /\ Len(delivered) <= MaxMsgs
    /\ pumpLogs \in 0..1
    /\ genLogs \in 0..MaxAttempts
    /\ lastEnd \in EndValues
    /\ waited \in 0..(2 * retry_seconds)
    /\ cancelledAt \in CancelPoints
    /\ forwarded \in Seq(Frames) /\ Len(forwarded) <= MaxMsgs
    /\ connectFails \in 0..MaxAttempts
    /\ closeFails \in 0..MaxAttempts
    /\ failsSince \in 0..MaxAttempts

\* asyncio.run(print_btc_ticker()): the first pull of `async for` enters the
\* generator, whose first statement awaits websockets.connect(URL).
Init ==
    /\ pc = "connecting"
    /\ gen = 0
    /\ live = {}
    /\ wsOpen = FALSE
    /\ attempts = 1
    /\ subs = 0
    /\ sendDone = FALSE
    /\ recvs = 0
    /\ received = <<>>
    /\ delivered = <<>>
    /\ pumpLogs = 0
    /\ genLogs = 0
    /\ lastEnd = "start"
    /\ waited = 0
    /\ cancelledAt = "none"
    /\ forwarded = <<>>
    /\ connectFails = 0
    /\ closeFails = 0
    /\ failsSince = 0

\* `except Exception` (both handlers): CancelledError and GeneratorExit are
\* BaseExceptions and pass through it.
CaughtAll(exc) == TRUE

Caught(exc) == exc = "Exception"

\* `asyncio.sleep(retry_seconds)` without await: the call only builds a
\* coroutine object, which is dropped; the task is not suspended at all.
SleepCall(secs) == 0

\* Exit of `async with websockets.connect(URL) as websocket`: the handle of
\* generation g is closed.
ExitLeavesOpen(l, g) == l

ExitAsyncWith(l, g) == l \ {g}

\* websocket_generator's handler: log, asyncio.sleep(...) (not awaited),
\* continue -> the next websockets.connect(URL) is awaited.
GeneratorExceptStops(end, base) ==
    /\ genLogs' = genLogs + 1
    /\ waited' = base + SleepCall(retry_seconds)
    /\ lastEnd' = end
    /\ pc' = "task_ended"
    /\ attempts' = attempts

GeneratorExceptSilent(end, base) ==
    /\ attempts < MaxAttempts
    /\ genLogs' = genLogs
    /\ waited' = base + SleepCall(retry_seconds)
    /\ lastEnd' = end
    /\ pc' = "connecting"
    /\ attempts' = attempts + 1

GeneratorExcept(end, base) ==
    /\ attempts < MaxAttempts
    /\ genLogs' = genLogs + 1
    /\ waited' = base + SleepCall(retry_seconds)
    /\ lastEnd' = end
    /\ pc' = "connecting"
    /\ attempts' = attempts + 1

\* An exception raised inside the generator's try block.  Uncaught, it leaves
\* the generator and, through `async for` (outside print_btc_ticker's try),
\* the task.
RaiseInGenerator(exc, end, base, at) ==
    /\ cancelledAt' = at
    /\ IF Caught(exc)
       THEN GeneratorExcept(end, base)
       ELSE /\ pc' = "task_ended"
            /\ UNCHANGED <<genLogs, waited, lastEnd, attempts>>

\* print_btc_ticker's handler: log, continue -> the generator is resumed after
\* its yield and awaits the exit of `async with`.  No sleep.
TickerExceptRaises(end) ==
    /\ pumpLogs' = pumpLogs + 1
    /\ lastEnd' = end
    /\ waited' = 0
    /\ pc' = "task_ended"

TickerExcept(end) ==
    /\ pumpLogs' = pumpLogs + 1
    /\ lastEnd' = end
    /\ waited' = 0
    /\ pc' = "closing"

\* An exception raised inside print_btc_ticker's try block.  Uncaught, it ends
\* the task and leaves the generator suspended at its yield.
RaiseInTicker(exc, end, at) ==
    /\ cancelledAt' = at
    /\ IF Caught(exc)
       THEN TickerExcept(end)
       ELSE /\ pc' = "task_ended"
            /\ UNCHANGED <<pumpLogs, lastEnd, waited>>

\* `while websocket.open:` evaluated after the send or after a print: either
\* the next recv is awaited, or the loop and the for body end without an
\* error and the generator is resumed.
LoopCheckAlways ==
    /\ cancelledAt' = cancelledAt
    /\ pc' = "receiving"
    /\ recvs' = recvs + 1
    /\ UNCHANGED <<pumpLogs, lastEnd, waited>>

LoopCheckExitEnds ==
    /\ cancelledAt' = cancelledAt
    /\ IF wsOpen
       THEN /\ pc' = "receiving"
            /\ recvs' = recvs + 1
            /\ UNCHANGED <<pumpLogs, lastEnd, waited>>
       ELSE /\ pc' = "task_ended"
            /\ recvs' = recvs
            /\ lastEnd' = "peer_closed"
            /\ waited' = 0
            /\ pumpLogs' = pumpLogs

LoopCheck ==
    /\ cancelledAt' = cancelledAt
    /\ IF wsOpen
       THEN /\ pc' = "receiving"
            /\ recvs' = recvs + 1
            /\ UNCHANGED <<pumpLogs, lastEnd, waited>>
       ELSE /\ pc' = "closing"
            /\ recvs' = recvs
            /\ lastEnd' = "peer_closed"
            /\ waited' = 0
            /\ pumpLogs' = pumpLogs

\* connect succeeds: yield websocket; the for body builds msg and awaits
\* websocket.send(json.dumps(msg)).
ConnectOkNoSubscribe ==
    /\ pc = "connecting"
    /\ gen' = gen + 1
    /\ live' = live \cup {gen + 1}
    /\ wsOpen' = TRUE
    /\ subs' = 0
    /\ sendDone' = FALSE
    /\ recvs' = 1
    /\ received' = <<>>
    /\ delivered' = <<>>
    /\ pumpLogs' = 0
    /\ lastEnd' = "none"
    /\ waited' = 0
    /\ pc' = "receiving"
    /\ UNCHANGED <<attempts, genLogs, cancelledAt>>
    /\ forwarded' = <<>>
    /\ failsSince' = 0
    /\ UNCHANGED <<connectFails, closeFails>>

ConnectOk ==
    /\ pc = "connecting"
    /\ gen' = gen + 1
    /\ live' = live \cup {gen + 1}
    /\ wsOpen' = TRUE
    /\ subs' = 1
    /\ sendDone' = FALSE
    /\ recvs' = 0
    /\ received' = <<>>
    /\ delivered' = <<>>
    /\ pumpLogs' = 0
    /\ lastEnd' = "none"
    /\ waited' = 0
    /\ pc' = "sending"
    /\ UNCHANGED <<attempts, genLogs, cancelledAt>>
    /\ forwarded' = <<>>
    /\ failsSince' = 0
    /\ UNCHANGED <<connectFails, closeFails>>

\* connect raises (refused, timeout, bad handshake ...).
ConnectFailYields ==
    /\ pc = "connecting"
    /\ attempts < MaxAttempts
    /\ genLogs' = genLogs + 1
    /\ lastEnd' = "connect_failed"
    /\ waited' = SleepCall(retry_seconds)
    /\ pc' = "sending"
    /\ subs' = 1
    /\ sendDone' = FALSE
    /\ connectFails' = connectFails + 1
    /\ failsSince' = failsSince + 1
    /\ UNCHANGED <<gen, live, wsOpen, attempts, recvs, received, delivered,
                   pumpLogs, cancelledAt, forwarded, closeFails>>

ConnectFail ==
    /\ pc = "connecting"
    /\ RaiseInGenerator("Exception", "connect_failed", 0, cancelledAt)
    /\ UNCHANGED <<gen, live, wsOpen, subs, sendDone, recvs, received,
                   delivered, pumpLogs>>
    /\ connectFails' = connectFails + 1
    /\ failsSince' = failsSince + 1
    /\ UNCHANGED <<forwarded, closeFails>>

\* The send returns.
SendOk ==
    /\ pc = "sending"
    /\ sendDone' = TRUE
    /\ LoopCheck
    /\ UNCHANGED <<gen, live, wsOpen, attempts, subs, received, delivered,
                   genLogs>>
    /\ UNCHANGED <<forwarded, connectFails, closeFails, failsSince>>

\* The send raises.
SendFailIgnored ==
    /\ pc = "sending"
    /\ pumpLogs' = pumpLogs + 1
    /\ lastEnd' = "send_failed"
    /\ pc' = "receiving"
    /\ recvs' = recvs + 1
    /\ UNCHANGED <<gen, live, wsOpen, attempts, subs, sendDone, received,
                   delivered, genLogs, waited, cancelledAt>>
    /\ UNCHANGED <<forwarded, connectFails, closeFails, failsSince>>

SendFail ==
    /\ pc = "sending"
    /\ RaiseInTicker("Exception", "send_failed", cancelledAt)
    /\ wsOpen' = FALSE
    /\ UNCHANGED <<gen, live, attempts, subs, sendDone, recvs, received,
                   delivered, genLogs>>
    /\ UNCHANGED <<forwarded, connectFails, closeFails, failsSince>>

\* recv returns frame f and print(response) succeeds.
RecvDeliverSkips(f) ==
    /\ pc = "receiving"
    /\ Len(received) < MaxMsgs - 1
    /\ \E g \in Frames :
          /\ received' = Append(Append(received, g), f)
          /\ delivered' = Append(delivered, f)
          /\ forwarded' = Append(forwarded, f)
    /\ LoopCheck
    /\ UNCHANGED <<gen, live, wsOpen, attempts, subs, sendDone, genLogs>>
    /\ UNCHANGED <<connectFails, closeFails, failsSince>>

RecvDeliver(f) ==
    /\ pc = "receiving"
    /\ Len(received) < MaxMsgs
    /\ received' = Append(received, f)
    /\ delivered' = Append(delivered, f)
    /\ LoopCheck
    /\ UNCHANGED <<gen, live, wsOpen, attempts, subs, sendDone, genLogs>>
    /\ forwarded' = Append(forwarded, f)
    /\ UNCHANGED <<connectFails, closeFails, failsSince>>

\* recv returns frame f and print(response) raises.
RecvConsumerFailIsolated(f) ==
    /\ pc = "receiving"
    /\ Len(received) < MaxMsgs
    /\ received' = Append(received, f)
    /\ pumpLogs' = pumpLogs + 1
    /\ lastEnd' = "consumer_failed"
    /\ pc' = "receiving"
    /\ recvs' = recvs + 1
    /\ UNCHANGED <<gen, live, wsOpen, attempts, subs, sendDone, delivered,
                   genLogs, waited, cancelledAt>>
    /\ forwarded' = Append(forwarded, f)
    /\ UNCHANGED <<connectFails, closeFails, failsSince>>

RecvConsumerFail(f) ==
    /\ pc = "receiving"
    /\ Len(received) < MaxMsgs
    /\ received' = Append(received, f)
    /\ RaiseInTicker("Exception", "consumer_failed", cancelledAt)
    /\ UNCHANGED <<gen, live, wsOpen, attempts, subs, sendDone, recvs,
                   delivered, genLogs>>
    /\ forwarded' = Append(forwarded, f)
    /\ UNCHANGED <<connectFails, closeFails, failsSince>>

\* recv raises (ConnectionClosed ...).
RecvFailRetries ==
    /\ pc = "receiving"
    /\ pumpLogs' = pumpLogs + 1
    /\ lastEnd' = "recv_failed"
    /\ recvs' = recvs + 1
    /\ wsOpen' = FALSE
    /\ UNCHANGED <<pc, gen, live, attempts, subs, sendDone, received,
                   delivered, genLogs, waited, cancelledAt>>
    /\ UNCHANGED <<forwarded, connectFails, closeFails, failsSince>>

RecvFail ==
    /\ pc = "receiving"
    /\ RaiseInTicker("Exception", "recv_failed", cancelledAt)
    /\ wsOpen' = FALSE
    /\ UNCHANGED <<gen, live, attempts, subs, sendDone, recvs, received,
                   delivered, genLogs>>
    /\ UNCHANGED <<forwarded, connectFails, closeFails, failsSince>>

\* The peer closes the connection while the task is suspended on it.
PeerClose ==
    /\ pc \in {"sending", "receiving"}
    /\ wsOpen
    /\ wsOpen' = FALSE
    /\ UNCHANGED <<pc, gen, live, attempts, subs, sendDone, recvs, received,
                   delivered, pumpLogs, genLogs, lastEnd, waited, cancelledAt>>
    /\ UNCHANGED <<forwarded, connectFails, closeFails, failsSince>>

\* The exit of `async with` returns: `while True` awaits the next connect.
CloseOkYieldsAgain ==
    /\ pc = "closing"
    /\ attempts < MaxAttempts
    /\ pc' = "sending"
    /\ UNCHANGED <<gen, live, wsOpen, attempts, subs, sendDone, recvs,
                   received, delivered, pumpLogs, genLogs, lastEnd, waited,
                   cancelledAt, forwarded, connectFails, closeFails,
                   failsSince>>

CloseOk ==
    /\ pc = "closing"
    /\ attempts < MaxAttempts
    /\ live' = ExitAsyncWith(live, gen)
    /\ wsOpen' = FALSE
    /\ pc' = "connecting"
    /\ attempts' = attempts + 1
    /\ UNCHANGED <<gen, subs, sendDone, recvs, received, delivered, pumpLogs,
                   genLogs, lastEnd, waited, cancelledAt>>
    /\ UNCHANGED <<forwarded, connectFails, closeFails, failsSince>>

\* The exit of `async with` raises, inside the generator's try block.
CloseFail ==
    /\ pc = "closing"
    /\ live' = ExitAsyncWith(live, gen)
    /\ wsOpen' = FALSE
    /\ RaiseInGenerator("Exception", "close_failed", waited, cancelledAt)
    /\ UNCHANGED <<gen, subs, sendDone, recvs, received, delivered, pumpLogs>>
    /\ closeFails' = closeFails + 1
    /\ UNCHANGED <<forwarded, connectFails, failsSince>>

\* The task is cancelled while it awaits the connect.
CancelConnect ==
    /\ pc = "connecting"
    /\ cancelledAt = "none"
    /\ RaiseInGenerator("CancelledError", "cancelled", 0, "connecting")
    /\ UNCHANGED <<gen, live, wsOpen, subs, sendDone, recvs, received,
                   delivered, pumpLogs>>
    /\ UNCHANGED <<forwarded, connectFails, closeFails, failsSince>>

\* The task is cancelled while it awaits the send.
CancelSend ==
    /\ pc = "sending"
    /\ cancelledAt = "none"
    /\ RaiseInTicker("CancelledError", "cancelled", "sending")
    /\ UNCHANGED <<gen, live, wsOpen, attempts, subs, sendDone, recvs,
                   received, delivered, genLogs>>
    /\ UNCHANGED <<forwarded, connectFails, closeFails, failsSince>>

\* The task is cancelled while it awaits a recv.
CancelRecv ==
    /\ pc = "receiving"
    /\ cancelledAt = "none"
    /\ RaiseInTicker("CancelledError", "cancelled", "receiving")
    /\ UNCHANGED <<gen, live, wsOpen, attempts, subs, sendDone, recvs,
                   received, delivered, genLogs>>
    /\ UNCHANGED <<forwarded, connectFails, closeFails, failsSince>>

\* asyncio.run's epilogue once the task has ended: shutdown_asyncgens()
\* acloses a generator still suspended at its yield, which raises
\* GeneratorExit there and so exits `async with`.
RunReturnsAtOnce ==
    /\ pc = "task_ended"
    /\ pc' = "done"
    /\ UNCHANGED <<gen, live, wsOpen, attempts, subs, sendDone, recvs,
                   received, delivered, pumpLogs, genLogs, lastEnd, waited,
                   cancelledAt>>
    /\ UNCHANGED <<forwarded, connectFails, closeFails, failsSince>>

ShutdownAsyncgens ==
    /\ pc = "task_ended"
    /\ live' = ExitAsyncWith(live, gen)
    /\ wsOpen' = FALSE
    /\ pc' = "done"
    /\ UNCHANGED <<gen, attempts, subs, sendDone, recvs, received, delivered,
                   pumpLogs, genLogs, lastEnd, waited, cancelledAt>>
    /\ UNCHANGED <<forwarded, connectFails, closeFails, failsSince>>

Next ==
    \/ ConnectOk
    \/ ConnectFail
    \/ SendOk
    \/ SendFail
    \/ \E f \in Frames : RecvDeliver(f)
    \/ \E f \in Frames : RecvConsumerFail(f)
    \/ RecvFail
    \/ PeerClose
    \/ CloseOk
    \/ CloseFail
    \/ CancelConnect
    \/ CancelSend
    \/ CancelRecv
    \/ ShutdownAsyncgens

Spec == Init /\ [][Next]_vars

\* The event loop keeps running the task and every await on the library
\* completes, one way or the other.
LiveSpec == Spec /\ WF_vars(Next)

\* Stage of the connection of the current attempt: 0 Connecting (connect
\* awaited), 1 Connected/Handshaking (send awaited), 2 Connected/Pumping (recv
\* awaited), 3 Closed (pump left: handle being closed or closed, or task ended).
Phase ==
    CASE pc = "connecting" -> 0
      [] pc = "sending" -> 1
      [] pc = "receiving" -> 2
      [] OTHER -> 3

(***************************************************************************)
(* Properties                                                              *)
(***************************************************************************)

C2_BackoffAfterConnectFailure ==
    (pc = "connecting" /\ lastEnd = "connect_failed") => waited = retry_seconds

\* C3: on every yielded handle at most one subscribe is sent; a recv is issued
\* and a frame is forwarded only after that one send has returned; a handle
\* that is open has had its subscribe issued.
C3_HandshakeBeforePump ==
    /\ subs <= 1
    /\ (recvs > 0 \/ Len(received) > 0 \/ Len(delivered) > 0)
          => (subs = 1 /\ sendDone)
    /\ (gen \in live => subs = 1)
    /\ (pc = "receiving" => sendDone)

C3_Witness ==
    /\ gen >= 2
    /\ Len(delivered) >= 1
    /\ subs = 1
    /\ pc = "receiving"

\* C4: at most one handle is open, and none is open while a connection
\* attempt is in progress.
C4_SingleOpenHandle ==
    /\ Cardinality(live) <= 1
    /\ live \subseteq {gen}
    /\ (pc = "connecting" => live = {})

C4_Witness ==
    /\ gen >= 2
    /\ live = {gen}
    /\ genLogs >= 1

\* C5: a connection attempt in progress leads to a yielded handle (the task
\* awaiting the subscribe send on it), unless the task is cancelled, however
\* many attempts fail before one succeeds.
C5_EventuallyYields ==
    (pc = "connecting") ~> (pc = "sending" \/ cancelledAt # "none")

C5_Witness ==
    /\ pc = "sending"
    /\ gen = 1
    /\ genLogs >= 2
    /\ attempts >= 3

\* C6: once recv has failed on a handle, the failure has been logged once,
\* the failed recv is the last one issued on that handle, and the task is
\* back in the generator (closing the handle or connecting again) or ended.
C6_RecvErrorStopsPump ==
    lastEnd = "recv_failed" =>
        /\ pumpLogs = 1
        /\ recvs = Len(received) + 1
        /\ pc \notin {"sending", "receiving"}
        /\ (pc = "closing" => live = {gen})
        /\ (pc # "closing" => live = {})

C6_Witness ==
    /\ lastEnd = "recv_failed"
    /\ Len(delivered) >= 1
    /\ pc = "connecting"

\* C7: a connection attempt that follows the failure of a yielded handle
\* (failed send or failed recv) starts only after the task has been suspended
\* for retry_seconds, once.
C7_BackoffAfterHandleFailure ==
    (pc = "connecting" /\ lastEnd \in {"send_failed", "recv_failed"})
        => waited = retry_seconds

\* C8: once the subscribe send has failed on a handle, no recv has been
\* issued on it, and the task is back in the generator: the handle is being
\* closed, or is closed and a new connection attempt is in progress.
C8_HandshakeFailure ==
    lastEnd = "send_failed" =>
        /\ recvs = 0
        /\ received = <<>>
        /\ ~sendDone
        /\ pumpLogs = 1
        /\ pc \notin {"sending", "receiving"}
        /\ (pc = "closing" => live = {gen})
        /\ (pc # "closing" => live = {})

C8_Witness ==
    /\ lastEnd = "send_failed"
    /\ pc = "connecting"
    /\ live = {}

C11_FailuresAbsorbed ==
    /\ [](cancelledAt = "none" => pc \notin {"task_ended", "done"})
    /\ [][pumpLogs' = pumpLogs + 1 => pc' = "closing"]_vars
    /\ [][genLogs' = genLogs + 1
            => (pc' = "connecting" /\ attempts' = attempts + 1)]_vars
    /\ ((pc = "closing" /\ attempts < MaxAttempts) ~> (pc = "connecting"))

C11_Witness ==
    /\ cancelledAt = "none"
    /\ pc = "connecting"
    /\ lastEnd = "close_failed"
    /\ connectFails >= 1
    /\ pumpLogs = 1

\* C12: on every handle the frames print() has been called with are exactly
\* the frames recv has returned on that handle, in the same order; the frames
\* print() has finished are those same frames, except for a last one on which
\* print() raised, after which no recv is issued.
C12_InOrderDelivery ==
    /\ forwarded = received
    /\ Len(delivered) <= Len(forwarded)
    /\ delivered = SubSeq(forwarded, 1, Len(delivered))
    /\ Len(forwarded) - Len(delivered) <= 1
    /\ (pc = "receiving" => delivered = received)

C12_Witness ==
    /\ Len(received) = 2
    /\ received[1] # received[2]
    /\ delivered = received
    /\ gen >= 2
    /\ pc = "receiving"

C14_YieldDiscipline ==
    /\ [][(pc # "sending" /\ pc' = "sending")
            => (/\ pc = "connecting"
                /\ gen' = gen + 1
                /\ live = {}
                /\ live' = {gen'}
                /\ attempts' = attempts
                /\ genLogs' = genLogs)]_vars
    /\ [][gen' # gen => (pc = "connecting" /\ pc' = "sending")]_vars
    /\ [][genLogs' # genLogs => (gen' = gen /\ pc' = "connecting")]_vars
    /\ [](gen + connectFails <= attempts)

C14_Witness ==
    /\ pc = "sending"
    /\ gen = 2
    /\ connectFails >= 1
    /\ attempts = 4

\* C15: while the task awaits a send or a recv, the handle it uses is the
\* latest generation and is the one open handle; a send or recv is issued
\* only on a handle that is open (not yet closed by the generator), and a recv
\* only in a step that starts with websocket.open true.
C15_NoStaleHandleUse ==
    /\ [](pc \in {"sending", "receiving"} => live = {gen})
    /\ [][recvs' = recvs + 1 => (wsOpen /\ gen' = gen /\ live' = {gen})]_vars
    /\ [][(subs' # subs \/ recvs' # recvs) => live' = {gen'}]_vars
    /\ [][gen \notin live
            => (gen' # gen \/ (subs' = subs /\ recvs' = recvs))]_vars

C15_Witness ==
    /\ pc = "receiving"
    /\ gen >= 2
    /\ recvs = 2
    /\ ~wsOpen
    /\ live = {gen}

\* C16 (as stated): every established connection passes through Handshaking,
\* Pumping and Closed in that order with no state skipped or revisited, and a
\* connection whose pump ended without an error (clean close) is not followed
\* by another connection attempt: it ends the system.
C16_FullLifecycle ==
    /\ [][(attempts' = attempts /\ Phase >= 1)
            => Phase' \in {Phase, Phase + 1}]_vars
    /\ [][(pc = "closing" /\ lastEnd = "peer_closed") => pc' # "connecting"]_vars

\* C16 (amended): a connection only moves forward through Connecting,
\* Handshaking, Pumping, Closed and never revisits a state; Handshaking is
\* entered only from Connecting and Pumping only from Handshaking, but
\* Connecting and Handshaking may go straight to Closed; a new connection
\* starts only from a failed Connecting or from a Closed connection, with no
\* handle open; every closed connection, failed or not, is followed by a new
\* connection attempt, and only a cancellation ends the task.
C16_ForwardLifecycle ==
    /\ [][attempts' = attempts
            => (/\ Phase' >= Phase
                /\ (Phase' = 1 => Phase \in {0, 1})
                /\ (Phase' = 2 => Phase \in {1, 2}))]_vars
    /\ [][attempts' # attempts
            => (/\ attempts' = attempts + 1
                /\ Phase \in {0, 3}
                /\ Phase' = 0
                /\ live' = {})]_vars
    /\ [][(pc = "closing" /\ pc' # "closing") => pc' = "connecting"]_vars
    /\ [](pc \in {"task_ended", "done"} => cancelledAt # "none")

C16_Witness ==
    /\ pc = "connecting"
    /\ lastEnd = "peer_closed"
    /\ Len(delivered) >= 1
    /\ cancelledAt = "none"
    /\ gen >= 1

\* C17: once the pump loop of a handle has ended because websocket.open was
\* false, nothing has been logged for that handle and nothing has been slept;
\* the task has not ended (unless cancelled later): the handle is being
\* closed, or is closed with a new connection attempt in progress; when the
\* close returns, the generator connects again in that step without logging,
\* and the connection that follows gets its subscribe.
C17_PeerCloseReconnects ==
    /\ [](lastEnd = "peer_closed" =>
            /\ pumpLogs = 0
            /\ waited = 0
            /\ sendDone
            /\ pc \notin {"sending", "receiving"}
            /\ (pc = "closing" => live = {gen})
            /\ (pc # "closing" => live = {})
            /\ (cancelledAt = "none" => pc \in {"closing", "connecting"}))
    /\ [][(pc = "closing" /\ lastEnd = "peer_closed" /\ pc' # "closing"
           /\ lastEnd' = "peer_closed")
            => (/\ pc' = "connecting"
                /\ attempts' = attempts + 1
                /\ genLogs' = genLogs
                /\ waited' = 0)]_vars
    /\ [][(pc = "connecting" /\ lastEnd = "peer_closed" /\ gen' # gen)
            => (pc' = "sending" /\ subs' = 1 /\ gen' = gen + 1
                /\ live' = {gen'})]_vars

C17_Witness ==
    /\ lastEnd = "peer_closed"
    /\ pc = "connecting"
    /\ attempts >= 2
    /\ genLogs = 0
    /\ Len(delivered) = 2
    /\ cancelledAt = "none"

====
